---- MODULE Spec2Model ----
(***************************************************************************)
(* Model of opcua/server/history.py: the in-memory history backend         *)
(* (HistoryDict), the notification sink (SubHandler) and the               *)
(* HistoryManager (historize, dehistorize, read_history, update_history).  *)
(*                                                                         *)
(* Time is counted in ticks, TicksPerSecond ticks to a second, so that a   *)
(* datetime can carry a sub-second part.  A DataValue is a record          *)
(* [Value, ServerTimestamp, SourceTimestamp].  A Python exception leaving  *)
(* a call is the "raised" field of the call's outcome ("none": the call    *)
(* returned).                                                              *)
(***************************************************************************)
EXTENDS Integers, Sequences, FiniteSets, TLC

\* ---------------------------------------------------------------- bounds
Nodes == {"n1", "n2"}
\* the backend objects that exist: 1 is the HistoryDict the manager builds
\* in __init__, 2 is one handed to set_storage
StoreIds == {1, 2}
MaxTime == 2
MaxSaves == 2
MaxHandles == 2
MaxBatch == 2
MaxCodecSeconds == 300
TicksPerSecond == 2
\* historize's default period, timedelta(days=7), in ticks
DefaultPeriod == 7 * 86400 * TicksPerSecond

Times == 0..MaxTime
\* retention periods in ticks; 0 is a falsy period (None, timedelta(0))
Periods == {0, 1}
\* count caps; 0 is no cap
Counts == {0, 1}
DetailKinds == {"ReadRawModifiedDetails", "ReadRawModifiedDetails/IsReadModified",
                "ReadEventDetails", "ReadProcessedDetails"}
\* continuation points a request may carry: none, 4-byte tokens, a short one
ContinuationPoints == {<<>>, <<0, 0, 0, 1>>, <<0, 1>>}

VARIABLES
    now,                \* the wall clock, datetime.now()
    stamp,              \* the last ServerTimestamp the server has issued
    nsaved,             \* number of DataValues handed to save_datavalue so far
    datachanges,        \* per backend: HistoryDict._datachanges, node -> list
    datachanges_period, \* per backend: HistoryDict._datachanges_period
    storage,            \* HistoryManager.storage (a backend id)
    sub,                \* HistoryManager._sub, with its SubHandler's storage
    handlers,           \* HistoryManager._handlers, node -> item handle
    monitored,          \* the subscription's monitored items, handle -> node
    late,               \* nodes a notification may still be in flight for
    next_handle,        \* the subscription's handle counter
    saving,             \* the save_datavalue call a notification is inside of
    managed,            \* per node: its last historize/dehistorize that returned
    ret                 \* the outcome of the last call

vars == <<now, stamp, nsaved, datachanges, datachanges_period, storage, sub,
          handlers, monitored, late, next_handle, saving, managed, ret>>

EmptyMap == [x \in {} |-> 0]
NoSub == [created |-> FALSE, storage |-> 0]
\* no save_datavalue call is under way
NotSaving == [active |-> FALSE, store |-> 0, node |-> "none", t |-> 0,
              datavalue |-> [Value |-> 0, ServerTimestamp |-> 0, SourceTimestamp |-> 0],
              pre |-> <<>>, post |-> <<>>]

\* --------------------------------------------------------------- helpers
InRange(s, start, end) ==
    SelectSeq(s, LAMBDA dv : start <= dv.ServerTimestamp /\ dv.ServerTimestamp <= end)

\* ----------------------------------------------------------- HistoryDict
\* new_node: both dictionaries get a fresh entry for the node
new_node(s, node, period, count) ==
    [datachanges |->
        [datachanges EXCEPT ![s] =
            [n \in (DOMAIN @) \cup {node} |-> IF n = node THEN <<>> ELSE @[n]]],
     datachanges_period |->
        [datachanges_period EXCEPT ![s] =
            [n \in (DOMAIN @) \cup {node} |->
                IF n = node THEN <<period, count>> ELSE @[n]]]]

\* the loop of lines 66-67: pop the head while it is older than period;
\* data[0] of a list emptied by the loop raises IndexError
RECURSIVE pop_old(_, _, _)
pop_old(data, t, period) ==
    IF data = <<>>
    THEN [raised |-> "IndexError", data |-> <<>>]
    ELSE IF t - data[1].ServerTimestamp > period
         THEN pop_old(Tail(data), t, period)
         ELSE [raised |-> "none", data |-> data]

\* save_datavalue with the age loop left out: the record is appended and
\* nothing is popped
save_datavalue_keep_old(s, node, datavalue, t) ==
    IF node \notin DOMAIN datachanges[s]
    THEN [raised |-> "KeyError", datachanges |-> datachanges, local |-> <<>>,
          popped |-> 0]
    ELSE LET stored == Append(datachanges[s][node], datavalue)
         IN [raised |-> "none",
             datachanges |-> [datachanges EXCEPT ![s][node] = stored],
             local |-> stored,
             popped |-> 0]

\* save_datavalue that puts the new record at the head of the list
save_datavalue_at_head(s, node, datavalue, t) ==
    IF node \notin DOMAIN datachanges[s]
    THEN [raised |-> "KeyError", datachanges |-> datachanges, local |-> <<>>,
          popped |-> 0]
    ELSE LET period == datachanges_period[s][node][1]
             inserted == <<datavalue>> \o datachanges[s][node]
             aged == IF period # 0
                     THEN pop_old(inserted, t, period)
                     ELSE [raised |-> "none", data |-> inserted]
         IN [raised |-> aged.raised,
             datachanges |-> [datachanges EXCEPT ![s][node] = aged.data],
             local |-> aged.data,
             popped |-> Len(inserted) - Len(aged.data)]

\* save_datavalue at time t.  "stored" is the list object held by
\* _datachanges[node] when the call ends, "local" the value of the local
\* name data: line 69 rebinds the local name to a slice and leaves the
\* stored list as it is.  "popped" counts the records the loop removed.
save_datavalue(s, node, datavalue, t) ==
    IF node \notin DOMAIN datachanges[s]
    THEN [raised |-> "KeyError", datachanges |-> datachanges, local |-> <<>>,
          popped |-> 0]
    ELSE LET period == datachanges_period[s][node][1]
             count == datachanges_period[s][node][2]
             appended == Append(datachanges[s][node], datavalue)
             aged == IF period # 0
                     THEN pop_old(appended, t, period)
                     ELSE [raised |-> "none", data |-> appended]
             stored == aged.data
             local == IF aged.raised = "none" /\ count # 0 /\ Len(stored) > count
                      THEN SubSeq(stored, Len(stored) - count + 1, Len(stored))
                      ELSE stored
         IN [raised |-> aged.raised,
             datachanges |-> [datachanges EXCEPT ![s][node] = stored],
             local |-> local,
             popped |-> Len(appended) - Len(stored)]

\* read_datavalues with the end of the range exclusive
read_datavalues_open_end(s, node, start, end, nb_values) ==
    IF node \notin DOMAIN datachanges[s]
    THEN [type |-> "list", items |-> <<>>]
    ELSE [type |-> "list",
          items |-> SelectSeq(datachanges[s][node],
                       LAMBDA dv : start <= dv.ServerTimestamp /\ dv.ServerTimestamp < end)]

\* read_datavalues returns one list: the records of the node whose
\* ServerTimestamp lies in [start, end]; nb_values is not looked at
read_datavalues(s, node, start, end, nb_values) ==
    IF node \notin DOMAIN datachanges[s]
    THEN [type |-> "list", items |-> <<>>]
    ELSE [type |-> "list", items |-> InRange(datachanges[s][node], start, end)]

read_events(s, start, end, evfilter) ==
    [raised |-> "NotImplementedError"]

\* ---------------------------------------------------------------- codec
\* the interpreters the module runs on: struct.pack of an integer format
\* truncates a float on Python 2 and refuses it on Python 3
Pythons == {2, 3}

\* struct.pack("!L", n) of a whole number: four bytes, big endian, for
\* 0 <= n < 2^32
pack_L(n) ==
    IF n < 0 \/ n \div 65536 >= 65536
    THEN [raised |-> "struct.error", value |-> <<>>]
    ELSE [raised |-> "none",
          value |-> <<n \div 16777216, (n \div 65536) % 256, (n \div 256) % 256,
                      n % 256>>]

\* datetime_to_bytes: time_float is a float whatever dt is (time.mktime
\* returns one), and struct.pack("!L", time_float) depends on the
\* interpreter
datetime_to_bytes(dt, python) ==
    IF python = 3
    THEN [raised |-> "struct.error", value |-> <<>>]
    ELSE pack_L(dt \div TicksPerSecond)

\* struct.unpack('!L', data): four bytes, big endian, else struct.error;
\* datetime.fromtimestamp of whole seconds
bytes_to_datetime(data) ==
    IF Len(data) # 4
    THEN [raised |-> "struct.error", value |-> 0]
    ELSE [raised |-> "none",
          value |-> (((data[1] * 256 + data[2]) * 256 + data[3]) * 256 + data[4])
                    * TicksPerSecond]

\* -------------------------------------------------------- HistoryManager
\* historize without the test of line 119: the node is registered and
\* subscribed again
historize_again(node, period, count) ==
    LET sub1 == IF ~sub.created THEN [created |-> TRUE, storage |-> storage] ELSE sub
        nn == [datachanges |->
                  [datachanges EXCEPT ![storage] =
                      [n \in (DOMAIN @) \cup {node} |-> IF n = node THEN <<>> ELSE @[n]]],
               datachanges_period |->
                  [datachanges_period EXCEPT ![storage] =
                      [n \in (DOMAIN @) \cup {node} |->
                          IF n = node THEN <<period, count>> ELSE @[n]]]]
    IN [raised |-> "none", sub |-> sub1,
        datachanges |-> nn.datachanges,
        datachanges_period |-> nn.datachanges_period,
        handlers |-> (node :> next_handle) @@ handlers,
        monitored |-> (next_handle :> node) @@ monitored,
        next_handle |-> next_handle + 1]

\* historize: the subscription is created on first use, with a SubHandler
\* holding the storage of that moment
historize(node, period, count) ==
    LET sub1 == IF ~sub.created THEN [created |-> TRUE, storage |-> storage] ELSE sub
    IN IF node \in DOMAIN handlers
       THEN [raised |-> "UaError", sub |-> sub1,
             datachanges |-> datachanges, datachanges_period |-> datachanges_period,
             handlers |-> handlers, monitored |-> monitored,
             next_handle |-> next_handle]
       ELSE LET nn == new_node(storage, node, period, count)
                handler == next_handle
            IN [raised |-> "none", sub |-> sub1,
                datachanges |-> nn.datachanges,
                datachanges_period |-> nn.datachanges_period,
                handlers |-> (node :> handler) @@ handlers,
                monitored |-> (handler :> node) @@ monitored,
                next_handle |-> next_handle + 1]

\* dehistorize that unsubscribes and keeps the entry of _handlers
dehistorize_keep_entry(node) ==
    IF ~sub.created
    THEN [raised |-> "AttributeError", handlers |-> handlers, monitored |-> monitored]
    ELSE IF node \notin DOMAIN handlers
    THEN [raised |-> "KeyError", handlers |-> handlers, monitored |-> monitored]
    ELSE [raised |-> "none",
          handlers |-> handlers,
          monitored |-> [h \in DOMAIN monitored \ {handlers[node]} |-> monitored[h]]]

\* dehistorize: self._sub.unsubscribe is looked up first (AttributeError on
\* None), then self._handlers[node] (KeyError)
dehistorize(node) ==
    IF ~sub.created
    THEN [raised |-> "AttributeError", handlers |-> handlers, monitored |-> monitored]
    ELSE IF node \notin DOMAIN handlers
    THEN [raised |-> "KeyError", handlers |-> handlers, monitored |-> monitored]
    ELSE [raised |-> "none",
          handlers |-> [n \in DOMAIN handlers \ {node} |-> handlers[n]],
          monitored |-> [h \in DOMAIN monitored \ {handlers[node]} |-> monitored[h]]]

\* what `dv, cont = <list>` does: a list of exactly two elements unpacks
\* into its elements, any other length raises ValueError
unpack_pair(lst) ==
    IF Len(lst.items) = 2
    THEN [raised |-> "none", dv |-> lst.items[1], cont |-> lst.items[2]]
    ELSE [raised |-> "ValueError", dv |-> <<>>, cont |-> <<>>]

\* read_datavalue_history that never looks at the continuation point
read_datavalue_history_nominal(rv, details) ==
    LET got == read_datavalues(storage, rv.NodeId, details.StartTime, details.EndTime,
                               details.NumValuesPerNode)
        un == unpack_pair(got)
    IN [raised |-> IF un.raised # "none" THEN un.raised ELSE "TypeError",
        queried |-> 1,
        query |-> [node |-> rv.NodeId, start |-> details.StartTime,
                   end |-> details.EndTime,
                   nb_values |-> details.NumValuesPerNode],
        dv |-> <<>>, cont |-> <<>>]

\* read_datavalue_history.  "query" is what the backend is asked (lines
\* 180-183).  The backend's list is unpacked into two names;
\* when that succeeds dv and cont are DataValues: cont is an object, hence
\* truthy, and dv[-1] subscripts a DataValue (TypeError).
read_datavalue_history(rv, details) ==
    LET dec == IF rv.ContinuationPoint # <<>>
               THEN bytes_to_datetime(rv.ContinuationPoint)
               ELSE [raised |-> "none", value |-> details.StartTime]
        got == read_datavalues(storage, rv.NodeId, dec.value, details.EndTime,
                               details.NumValuesPerNode)
        un == unpack_pair(got)
        query == [node |-> rv.NodeId, start |-> dec.value, end |-> details.EndTime,
                  nb_values |-> details.NumValuesPerNode]
    IN IF dec.raised # "none"
       THEN [raised |-> dec.raised, queried |-> 0, query |-> <<>>,
             dv |-> <<>>, cont |-> <<>>]
       ELSE IF un.raised # "none"
       THEN [raised |-> un.raised, queried |-> 1, query |-> query,
             dv |-> <<>>, cont |-> <<>>]
       ELSE [raised |-> "TypeError", queried |-> 1, query |-> query,
             dv |-> <<>>, cont |-> <<>>]

\* ua.HistoryReadResult() as constructed on line 145
HistoryReadResult ==
    [StatusCode |-> "Good", ContinuationPoint |-> <<>>, HistoryData |-> "None"]

\* _read_history whose last branch hands the unsupported kind to the event
\* reader
_read_history_as_event(details, rv) ==
    IF details.kind \in {"ReadRawModifiedDetails", "ReadRawModifiedDetails/IsReadModified"}
    THEN [raised |-> "AttributeError", queried |-> 0, result |-> HistoryReadResult]
    ELSE [raised |-> read_events(storage, details.StartTime, details.EndTime, 0).raised,
          queried |-> 1, result |-> HistoryReadResult]

\* _read_history: one item of a batch.  The raw/modified branches call
\* self._read_datavalue_history, a name HistoryManager does not define
\* (the method is read_datavalue_history): AttributeError.
_read_history(details, rv) ==
    IF details.kind \in {"ReadRawModifiedDetails", "ReadRawModifiedDetails/IsReadModified"}
    THEN [raised |-> "AttributeError", queried |-> 0, result |-> HistoryReadResult]
    ELSE IF details.kind = "ReadEventDetails"
    THEN [raised |-> read_events(storage, details.StartTime, details.EndTime, 0).raised,
          queried |-> 1, result |-> HistoryReadResult]
    ELSE [raised |-> "none", queried |-> 0,
          result |-> [HistoryReadResult EXCEPT !.StatusCode = "BadNotImplemented"]]

\* read_history: the loop over params.NodesToRead; an exception of one
\* item leaves the loop and the call
RECURSIVE read_history_loop(_, _, _, _)
read_history_loop(details, rvs, results, queried) ==
    IF rvs = <<>>
    THEN [raised |-> "none", results |-> results, queried |-> queried]
    ELSE LET res == _read_history(details, Head(rvs))
         IN IF res.raised # "none"
            THEN [raised |-> res.raised, results |-> results,
                  queried |-> queried + res.queried]
            ELSE read_history_loop(details, Tail(rvs), Append(results, res.result),
                                   queried + res.queried)

read_history(params) ==
    read_history_loop(params.HistoryReadDetails, params.NodesToRead, <<>>, 0)

\* update_history: line 202 appends the list results to itself, once per
\* item; the HistoryUpdateResult built on lines 199-201 is dropped
update_history(n) ==
    [i \in 1..n |-> [type |-> "list (results itself)", StatusCode |-> "none"]]

\* ------------------------------------------------------------- the state
Init ==
    /\ now = 0
    /\ stamp = 0
    /\ nsaved = 0
    /\ datachanges = [s \in StoreIds |-> EmptyMap]
    /\ datachanges_period = [s \in StoreIds |-> EmptyMap]
    /\ storage = 1
    /\ sub = NoSub
    /\ handlers = EmptyMap
    /\ monitored = EmptyMap
    /\ late = {}
    /\ next_handle = 1
    /\ saving = NotSaving
    /\ managed = [n \in Nodes |-> "never"]
    /\ ret = [op |-> "init", raised |-> "none"]

Tick ==
    /\ now < MaxTime
    /\ now' = now + 1
    /\ UNCHANGED <<stamp, nsaved, datachanges, datachanges_period, storage, sub,
                   handlers, monitored, late, next_handle, saving, managed, ret>>

SetStorage(s) ==
    /\ storage' = s
    /\ ret' = [op |-> "set_storage", raised |-> "none"]
    /\ UNCHANGED <<now, stamp, nsaved, datachanges, datachanges_period, sub,
                   handlers, monitored, late, next_handle, saving,
                   managed>>

Historize(node, period, count) ==
    /\ node \in DOMAIN handlers \/ next_handle <= MaxHandles
    /\ LET r == historize(node, period, count)
       IN /\ sub' = r.sub
          /\ datachanges' = r.datachanges
          /\ datachanges_period' = r.datachanges_period
          /\ handlers' = r.handlers
          /\ monitored' = r.monitored
          /\ next_handle' = r.next_handle
          /\ managed' = IF r.raised = "none"
                        THEN [managed EXCEPT ![node] = "historize"]
                        ELSE managed
          /\ ret' = [op |-> "historize", raised |-> r.raised, node |-> node]
    /\ UNCHANGED <<now, stamp, nsaved, storage, late, saving>>

Dehistorize(node) ==
    /\ LET r == dehistorize(node)
       IN /\ handlers' = r.handlers
          /\ monitored' = r.monitored
          /\ late' = IF r.raised = "none" THEN late \cup {node} ELSE late
          /\ managed' = IF r.raised = "none"
                        THEN [managed EXCEPT ![node] = "dehistorize"]
                        ELSE managed
          /\ ret' = [op |-> "dehistorize", raised |-> r.raised, node |-> node]
    /\ UNCHANGED <<now, stamp, nsaved, datachanges, datachanges_period, storage,
                   sub, next_handle, saving>>

\* a DataValue the server hands over: its ServerTimestamp is not before the
\* last one issued and not after the clock; the source stamped it at the
\* same tick
DataValues ==
    {[Value |-> nsaved + 1, ServerTimestamp |-> st, SourceTimestamp |-> st] :
        st \in stamp..now}

Save(s, node, dv, op) ==
    /\ nsaved < MaxSaves
    /\ LET r == save_datavalue(s, node, dv, now)
       IN /\ datachanges' = r.datachanges
          /\ ret' = [op |-> op, raised |-> r.raised, store |-> s, node |-> node,
                     now |-> now, datavalue |-> dv, local |-> r.local,
                     popped |-> r.popped]
    /\ nsaved' = nsaved + 1
    /\ stamp' = dv.ServerTimestamp
    /\ UNCHANGED <<now, datachanges_period, storage, sub, handlers, monitored,
                   late, next_handle, saving, managed>>

\* HistoryDict.save_datavalue called on a backend
SaveDatavalue(s, node, dv) ==
    Save(s, node, dv, "save_datavalue")

\* SubHandler.datachange_notification: the subscription delivers a change
\* of a monitored node, or a late one of a node unsubscribed meanwhile
DatachangeNotification(node, dv) ==
    /\ sub.created
    /\ node \in late \cup {monitored[h] : h \in DOMAIN monitored}
    /\ Save(sub.storage, node, dv, "datachange_notification")

ReadDatavalues(s, node, start, end, nb_values) ==
    /\ ret' = [op |-> "read_datavalues", raised |-> "none", store |-> s, node |-> node,
               start |-> start, end |-> end, nb_values |-> nb_values,
               saving |-> saving,
               value |-> read_datavalues(s, node, start, end, nb_values)]
    /\ UNCHANGED <<now, stamp, nsaved, datachanges, datachanges_period, storage,
                   sub, handlers, monitored, late, next_handle, saving,
                   managed>>

ReadDatavalueHistory(rv, details) ==
    /\ LET r == read_datavalue_history(rv, details)
       IN ret' = [op |-> "read_datavalue_history", raised |-> r.raised, rv |-> rv,
                  details |-> details, queried |-> r.queried,
                  query |-> r.query, dv |-> r.dv, cont |-> r.cont]
    /\ UNCHANGED <<now, stamp, nsaved, datachanges, datachanges_period, storage,
                   sub, handlers, monitored, late, next_handle, saving,
                   managed>>

ReadHistory(params) ==
    /\ LET r == read_history(params)
       IN ret' = [op |-> "read_history", raised |-> r.raised,
                  kind |-> params.HistoryReadDetails.kind,
                  nitems |-> Len(params.NodesToRead),
                  queried |-> r.queried, results |-> r.results]
    /\ UNCHANGED <<now, stamp, nsaved, datachanges, datachanges_period, storage,
                   sub, handlers, monitored, late, next_handle, saving,
                   managed>>

UpdateHistory(n) ==
    /\ ret' = [op |-> "update_history", raised |-> "none", nitems |-> n,
               results |-> update_history(n)]
    /\ UNCHANGED <<now, stamp, nsaved, datachanges, datachanges_period, storage,
                   sub, handlers, monitored, late, next_handle, saving,
                   managed>>

\* HistoryDict.new_node called on a backend
NewNode(s, node, period, count) ==
    /\ LET r == new_node(s, node, period, count)
       IN /\ datachanges' = r.datachanges
          /\ datachanges_period' = r.datachanges_period
    /\ ret' = [op |-> "new_node", raised |-> "none", store |-> s, node |-> node]
    /\ UNCHANGED <<now, stamp, nsaved, storage, sub, handlers, monitored, late,
                   next_handle, saving, managed>>

\* save_datavalue entered by a notification that runs beside the callers
\* of the backend: lines 61-64, the record is appended and the clock read.
\* "pre" is the node's list before the call, "post" the list the whole
\* call leaves.
SaveAppend(s, node, dv) ==
    /\ ~saving.active
    /\ nsaved < MaxSaves
    /\ node \in DOMAIN datachanges[s]
    /\ datachanges' = [datachanges EXCEPT ![s][node] = Append(@, dv)]
    /\ saving' = [active |-> TRUE, store |-> s, node |-> node, t |-> now,
                  datavalue |-> dv,
                  pre |-> datachanges[s][node],
                  post |-> save_datavalue(s, node, dv, now).datachanges[s][node]]
    /\ nsaved' = nsaved + 1
    /\ stamp' = dv.ServerTimestamp
    /\ UNCHANGED <<now, datachanges_period, storage, sub, handlers, monitored,
                   late, next_handle, managed, ret>>

\* the rest of that call, one step at a time: a turn of the loop of lines
\* 65-67 pops the head, or the loop ends and the call returns (lines 68-69
\* change no stored list), or data[0] of the emptied list raises
SaveStep ==
    /\ saving.active
    /\ LET s == saving.store
           node == saving.node
           data == datachanges[s][node]
           period == datachanges_period[s][node][1]
           done(raised) ==
               /\ saving' = NotSaving
               /\ ret' = [op |-> "save_datavalue", raised |-> raised, store |-> s,
                          node |-> node, now |-> saving.t,
                          datavalue |-> saving.datavalue, local |-> data,
                          popped |-> Len(saving.pre) + 1 - Len(data)]
               /\ UNCHANGED datachanges
       IN IF period = 0 THEN done("none")
          ELSE IF data = <<>> THEN done("IndexError")
          ELSE IF saving.t - data[1].ServerTimestamp > period
               THEN /\ datachanges' = [datachanges EXCEPT ![s][node] = Tail(@)]
                    /\ UNCHANGED <<saving, ret>>
               ELSE done("none")
    /\ UNCHANGED <<now, stamp, nsaved, datachanges_period, storage, sub, handlers,
                   monitored, late, next_handle, managed>>

\* datetime_to_bytes of a datetime, and bytes_to_datetime of its token
DatetimeToBytes(dt, python) ==
    /\ LET enc == datetime_to_bytes(dt, python)
           dec == IF enc.raised = "none"
                  THEN bytes_to_datetime(enc.value)
                  ELSE [raised |-> "not called", value |-> 0]
       IN ret' = [op |-> "datetime_to_bytes", raised |-> enc.raised, dt |-> dt,
                  python |-> python, token |-> enc.value, decoded |-> dec]
    /\ UNCHANGED <<now, stamp, nsaved, datachanges, datachanges_period, storage,
                   sub, handlers, monitored, late, next_handle, saving, managed>>

BytesToDatetime(data) ==
    /\ LET dec == bytes_to_datetime(data)
       IN ret' = [op |-> "bytes_to_datetime", raised |-> dec.raised, data |-> data,
                  value |-> dec.value]
    /\ UNCHANGED <<now, stamp, nsaved, datachanges, datachanges_period, storage,
                   sub, handlers, monitored, late, next_handle, saving, managed>>

\* the datetimes encoded: every tick of the seconds 0..MaxCodecSeconds
CodecTimes == 0..(MaxCodecSeconds * TicksPerSecond + TicksPerSecond - 1)

\* the requests drawn
ReadValueIds == [NodeId : Nodes, ContinuationPoint : ContinuationPoints]
RawDetails == [StartTime : {0, 1}, EndTime : {MaxTime}, NumValuesPerNode : {0, MaxBatch}]
Batches == UNION {[1..k -> [NodeId : Nodes, ContinuationPoint : {<<>>}]] :
                  k \in 0..MaxBatch}
ReadParams ==
    [HistoryReadDetails : [kind : DetailKinds, StartTime : {0}, EndTime : {MaxTime}],
     NodesToRead : Batches]

\* the manager's lifecycle interface and the subscription's notifications;
\* nodes are registered with the default count, the count policy being the
\* storage's concern (NextStore)
Next ==
    \/ Tick
    \/ \E n \in Nodes, p \in Periods : Historize(n, p, 0)
    \/ \E n \in Nodes : Dehistorize(n)
    \/ \E n \in Nodes, dv \in DataValues : DatachangeNotification(n, dv)

\* the manager's request interface, over nodes historized with the default
\* policy
NextRead ==
    \/ Tick
    \/ \E n \in Nodes : Historize(n, DefaultPeriod, 0)
    \/ \E n \in Nodes, dv \in DataValues : DatachangeNotification(n, dv)
    \/ \E rv \in ReadValueIds, d \in RawDetails : ReadDatavalueHistory(rv, d)
    \/ \E p \in ReadParams : ReadHistory(p)
    \/ \E n \in 0..MaxBatch : UpdateHistory(n)

\* the backend's interface, used on the manager's own HistoryDict
NextStore ==
    \/ Tick
    \/ \E n \in Nodes, p \in Periods, c \in Counts : NewNode(1, n, p, c)
    \/ \E n \in Nodes, dv \in DataValues : SaveDatavalue(1, n, dv)
    \/ \E n \in Nodes, a \in Times : \E b \in a..MaxTime, k \in {1, MaxBatch} :
          ReadDatavalues(1, n, a, b, k)

\* the continuation point codec
NextCodec ==
    \/ \E dt \in CodecTimes, py \in Pythons : DatetimeToBytes(dt, py)
    \/ \E data \in ContinuationPoints : BytesToDatetime(data)

\* set_storage between historize calls and notifications
NextStorage ==
    \/ \E s \in StoreIds : SetStorage(s)
    \/ \E n \in Nodes : Historize(n, DefaultPeriod, 0)
    \/ \E n \in Nodes, dv \in DataValues : DatachangeNotification(n, dv)
    \/ \E n \in Nodes : \E a \in Times : ReadDatavalues(storage, n, a, MaxTime, MaxBatch)

\* a notification's save_datavalue, step by step, beside reads of the
\* backend
NextConc ==
    \/ Tick
    \/ \E n \in Nodes, p \in Periods, c \in Counts :
          ~saving.active /\ NewNode(1, n, p, c)
    \/ \E n \in Nodes, dv \in DataValues : SaveAppend(1, n, dv)
    \/ SaveStep
    \/ \E n \in Nodes, a \in Times : \E b \in a..MaxTime :
          ReadDatavalues(1, n, a, b, MaxBatch)

Spec == Init /\ [][Next]_vars

SpecStorage == Init /\ [][NextStorage]_vars

SpecConc == Init /\ [][NextConc]_vars

SpecCodec == Init /\ [][NextCodec]_vars

SpecRead == Init /\ [][NextRead]_vars

SpecStore == Init /\ [][NextStore]_vars

\* ---------------------------------------------------------------- claims
\* the list a backend holds for a node, empty when the node is unknown
Stored(s, node) ==
    IF node \in DOMAIN datachanges[s] THEN datachanges[s][node] ELSE <<>>

IsSave == ret.op \in {"save_datavalue", "datachange_notification"}

\* C1: for a node registered with maxCount C > 0 the number of records
\* stored never exceeds C.
C1_CountCap ==
    \A s \in StoreIds : \A n \in DOMAIN datachanges[s] :
        LET count == datachanges_period[s][n][2]
        IN count > 0 => Len(datachanges[s][n]) <= count

C3_PaginatedChain ==
    LET eligible == InRange(Stored(storage, ret.rv.NodeId),
                            ret.details.StartTime, ret.details.EndTime)
        n == ret.details.NumValuesPerNode
        page == IF n = 0 \/ Len(eligible) <= n THEN eligible
                ELSE SubSeq(eligible, 1, n)
    IN (/\ ret.op = "read_datavalue_history"
        /\ ret.rv.ContinuationPoint = <<>>
        /\ eligible # <<>>) =>
            /\ ret.raised = "none"
            /\ ret.dv = page
            /\ (ret.cont = <<>>) <=> (Len(page) = Len(eligible))

\* C4: update_history on N items returns N HistoryUpdateResult entries,
\* each with status BadNotWritable.
C4_UpdateRejected ==
    ret.op = "update_history" =>
        /\ Len(ret.results) = ret.nitems
        /\ \A i \in 1..Len(ret.results) :
              /\ ret.results[i].type = "HistoryUpdateResult"
              /\ ret.results[i].StatusCode = "BadNotWritable"

\* C5: dehistorize of a node that is not historized fails with ua.UaError.
C5_DehistorizeUaError ==
    (ret.op = "dehistorize" /\ ret.raised # "none") => ret.raised = "UaError"

\* the monitored items the subscription holds for a node
ItemsOf(node) == {h \in DOMAIN monitored : monitored[h] = node}

\* C6: historize of a node already historized fails with ua.UaError and
\* leaves the registration, the subscription's items, the node's policy and
\* its stored records as they are; a node never has more than one active
\* registration.
C6_HistorizeTwiceRejected ==
    /\ [][\A n \in Nodes, p \in Periods, c \in Counts :
            (n \in DOMAIN handlers /\ Historize(n, p, c)) =>
                /\ ret'.raised = "UaError"
                /\ UNCHANGED <<handlers, monitored, next_handle, sub,
                               datachanges, datachanges_period>>]_vars
    /\ [](\A n \in Nodes :
            ItemsOf(n) = IF n \in DOMAIN handlers THEN {handlers[n]} ELSE {})

\* a second historize was refused for a node that holds records
C6_Witness ==
    /\ ret.op = "historize"
    /\ ret.raised = "UaError"
    /\ ret.node \in DOMAIN handlers
    /\ Stored(storage, ret.node) # <<>>

\* C7: read_datavalues returns only records with start <= timestamp <= end,
\* both bounds included, and leaves out no such record unless more than
\* nb_values records are in range.
C7_RangeInclusive ==
    ret.op = "read_datavalues" =>
        LET data == Stored(ret.store, ret.node)
            got == ret.value.items
            inrange == {j \in 1..Len(data) :
                           /\ ret.start <= data[j].ServerTimestamp
                           /\ data[j].ServerTimestamp <= ret.end}
        IN /\ \A i \in 1..Len(got) :
                 /\ ret.start <= got[i].ServerTimestamp
                 /\ got[i].ServerTimestamp <= ret.end
           /\ Cardinality(inrange) <= ret.nb_values =>
                 \A j \in inrange : \E i \in 1..Len(got) : got[i] = data[j]

\* a read with start = end returned the records of that tick and left out
\* a stored record of another tick
C7_Witness ==
    /\ ret.op = "read_datavalues"
    /\ ret.start = ret.end
    /\ ret.value.items # <<>>
    /\ \A i \in 1..Len(ret.value.items) :
          ret.value.items[i].ServerTimestamp = ret.start
    /\ Len(ret.value.items) < Len(Stored(ret.store, ret.node))

\* C8: read_datavalues returns (records, hasMore): records are at most
\* nb_values, the earliest in range, and hasMore is true exactly when a
\* further record in range exists.  A plain list carries no hasMore.
C8_CappedPair ==
    ret.op = "read_datavalues" =>
        LET eligible == InRange(Stored(ret.store, ret.node), ret.start, ret.end)
            got == ret.value.items
            hasMore == ret.value.type = "pair"
        IN /\ Len(got) <= ret.nb_values
           /\ got = SubSeq(eligible, 1, Len(got))
           /\ hasMore <=> (Len(eligible) > Len(got))

\* C9: read_history on K items returns K results and raises nothing.
C9_BatchIsolated ==
    ret.op = "read_history" =>
        /\ ret.raised = "none"
        /\ Len(ret.results) = ret.nitems

\* C10: for a detail kind that is neither raw/modified nor event, every
\* item's result has status BadNotImplemented, no history data and no
\* continuation point, the backend is not queried and every item of the
\* batch gets its result.
C10_UnsupportedKind ==
    (/\ ret.op = "read_history"
     /\ ret.kind \notin {"ReadRawModifiedDetails", "ReadRawModifiedDetails/IsReadModified",
                         "ReadEventDetails"}) =>
        /\ ret.raised = "none"
        /\ ret.queried = 0
        /\ Len(ret.results) = ret.nitems
        /\ \A i \in 1..Len(ret.results) :
              /\ ret.results[i].StatusCode = "BadNotImplemented"
              /\ ret.results[i].HistoryData = "None"
              /\ ret.results[i].ContinuationPoint = <<>>

\* a batch of two items of an unsupported kind was answered
C10_Witness ==
    /\ ret.op = "read_history"
    /\ ret.kind = "ReadProcessedDetails"
    /\ ret.nitems = 2
    /\ Len(ret.results) = 2

\* C11: datetime_to_bytes never fails and yields a 4-byte token, and
\* bytes_to_datetime of that token is the datetime truncated to whole
\* seconds.
C11_RoundTrip ==
    ret.op = "datetime_to_bytes" =>
        /\ ret.raised = "none"
        /\ Len(ret.token) = 4
        /\ ret.decoded.raised = "none"
        /\ ret.decoded.value = ret.dt - (ret.dt % TicksPerSecond)

IsRawRead == ret.op = "read_datavalue_history"

\* C12: a raw read whose continuation point is malformed (neither empty
\* nor four bytes) is served as if none had been supplied: the backend is
\* asked from the nominal StartTime and the read returns.
C12_MalformedPoint ==
    (/\ IsRawRead
     /\ Len(ret.rv.ContinuationPoint) \notin {0, 4}) =>
        /\ ret.queried = 1
        /\ ret.query.start = ret.details.StartTime
        /\ ret.raised = "none"

\* C13: for a node unknown to the backend save_datavalue raises nothing
\* and read_datavalues returns an empty result.
C13_UnknownNode ==
    /\ (IsSave /\ ret.node \notin DOMAIN datachanges[ret.store]) =>
           ret.raised = "none"
    /\ (ret.op = "read_datavalues" /\ ret.node \notin DOMAIN datachanges[ret.store]) =>
           ret.value.items = <<>>

C16_ContinuationPoint ==
    (/\ IsRawRead
     /\ Len(ret.rv.ContinuationPoint) \in {0, 4}) =>
        /\ ret.raised = "none"
        /\ LET eligible == InRange(Stored(storage, ret.rv.NodeId),
                                   ret.query.start, ret.query.end)
               n == ret.details.NumValuesPerNode
           IN /\ (ret.cont # <<>>) <=> (n # 0 /\ Len(eligible) > n)
              /\ ret.cont # <<>> =>
                    ret.cont = pack_L(ret.dv[Len(ret.dv)].SourceTimestamp
                                        \div TicksPerSecond).value

\* C17: with a four-byte continuation point the backend is asked from the
\* decoded timestamp and the nominal StartTime changes nothing in the
\* outcome; with an empty one it is asked from the nominal StartTime; the
\* end time and NumValuesPerNode are the request's in both cases.
C17_StartFromPoint ==
    IsRawRead =>
        LET cp == ret.rv.ContinuationPoint
            asked(start) == [node |-> ret.rv.NodeId, start |-> start,
                             end |-> ret.details.EndTime,
                             nb_values |-> ret.details.NumValuesPerNode]
        IN /\ Len(cp) = 4 =>
                 /\ ret.queried = 1
                 /\ ret.query = asked(bytes_to_datetime(cp).value)
                 /\ \A d \in RawDetails :
                       (/\ d.EndTime = ret.details.EndTime
                        /\ d.NumValuesPerNode = ret.details.NumValuesPerNode) =>
                           read_datavalue_history(ret.rv, d).raised = ret.raised
           /\ cp = <<>> =>
                 /\ ret.queried = 1
                 /\ ret.query = asked(ret.details.StartTime)

\* a read resumed from a continuation point later than its nominal
\* StartTime, over a node that holds a record older than the point
C17_Witness ==
    /\ IsRawRead
    /\ ret.rv.ContinuationPoint = <<0, 0, 0, 1>>
    /\ ret.details.StartTime = 0
    /\ ret.queried = 1
    /\ ret.query.start = TicksPerSecond
    /\ \E i \in 1..Len(Stored(storage, ret.rv.NodeId)) :
          Stored(storage, ret.rv.NodeId)[i].ServerTimestamp < ret.query.start

\* C14: a read that runs while a notification is inside save_datavalue for
\* the same node sees the node's list as it was before that call or as the
\* call leaves it.
C14_NoTornRead ==
    (/\ ret.op = "read_datavalues"
     /\ ret.saving.active
     /\ ret.saving.store = ret.store
     /\ ret.saving.node = ret.node) =>
        \/ ret.value.items = InRange(ret.saving.pre, ret.start, ret.end)
        \/ ret.value.items = InRange(ret.saving.post, ret.start, ret.end)

\* C18: a node has an entry in the handler registry exactly when its last
\* historize or dehistorize that returned was a historize, and a dehistorize
\* that returns removes from the subscription the very item the node's
\* historize obtained.
C18_RegistryFollowsCalls ==
    /\ [](\A n \in Nodes : (n \in DOMAIN handlers) <=> (managed[n] = "historize"))
    /\ [][\A n \in Nodes :
            (Dehistorize(n) /\ ret'.raised = "none") =>
                /\ n \in DOMAIN handlers
                /\ monitored[handlers[n]] = n
                /\ DOMAIN monitored' = DOMAIN monitored \ {handlers[n]}
                /\ n \notin DOMAIN handlers']_vars

\* a node historized again after it was dehistorized
C18_Witness ==
    \E n \in Nodes :
        /\ n \in late
        /\ managed[n] = "historize"
        /\ n \in DOMAIN handlers
        /\ ItemsOf(n) = {handlers[n]}

\* C19: once a node is dehistorized its records are gone from the backend:
\* a read of the node over the whole time range returns nothing.
C19_DiscardedOnDehistorize ==
    \A n \in Nodes :
        managed[n] = "dehistorize" =>
            read_datavalues(storage, n, 0, MaxTime, 0).items = <<>>

\* C20: the backend the SubHandler writes to is the backend the manager
\* reads from and registers nodes with.
C20_OneBackend ==
    sub.created => sub.storage = storage
====
